---- MODULE Spec2Model ----
(***************************************************************************)
(* Model of src/main.py: the collection provisioner                        *)
(* (setup_qdrant_collection), the ingestion step (add_to_qdrant), the      *)
(* query step (search_similar) and the demo driver (main), run against a   *)
(* vector store and an embedding provider whose calls may succeed or fail. *)
(***************************************************************************)
EXTENDS Integers, Sequences, FiniteSets, TLC

VARIABLES
    store,          \* the vector store: collection name -> collection
    reliable,       \* TRUE: every store call succeeds and takes effect
    mode,           \* "api": the functions are called one by one; "main": main() runs
    calls,          \* number of top-level calls made so far (api mode)
    pc,             \* position of the single control thread
    vector_size,    \* setup_qdrant_collection: argument
    max_retries,    \* setup_qdrant_collection: argument
    attempt,        \* setup_qdrant_collection: loop variable of line 74
    hist,           \* what the current setup_qdrant_collection call has done so far
    provisioned,    \* number of setup_qdrant_collection calls that returned normally
    lineage,        \* what was written to COLLECTION_NAME since it was last created
    data_objs,      \* add_to_qdrant: argument
    embeddings,     \* add_to_qdrant: argument
    upserts,        \* the upsert calls the current add_to_qdrant call has issued
    query_embedding,\* search_similar: argument
    limit,          \* search_similar: argument
    search_result,  \* search_similar: what qdrant_client.search returned
    results,        \* search_similar: the list it returns
    embedding_array,\* main: the embeddings of the sample records
    log,            \* main: the operations it has issued, in order
    okOps           \* main: how many of them have succeeded

envVars == <<reliable, mode>>
setupVars == <<vector_size, max_retries, attempt, hist>>
addVars == <<data_objs, embeddings, upserts>>
searchVars == <<query_embedding, limit, search_result, results>>
mainVars == <<embedding_array, log, okOps>>
vars == <<store, calls, pc, provisioned, lineage, envVars, setupVars, addVars,
          searchVars, mainVars>>

\* ---------------------------------------------------------------- bounds
MaxRetries == 3
MaxDim == 2
MaxCalls == 3
MaxBatch == 2
MaxLimit == 3

\* ---------------------------------------------------------------- values
COLLECTION_NAME == "lyrics"
Names == {COLLECTION_NAME, "other"}
Dims == 1..MaxDim
NoneId == -1

Absent == [exists |-> FALSE, size |-> 0, distance |-> "", field |-> "", points |-> {}]

\* What create_collection(collection_name, vectors_config={"text":
\* VectorParams(size=vector_size, distance=COSINE)}) leaves in the store.
NewCollection(size) ==
    [exists |-> TRUE, size |-> size, distance |-> "Cosine", field |-> "text", points |-> {}]

\* [collection.name for collection in qdrant_client.get_collections().collections]
collection_names == {n \in Names : store[n].exists}

\* A collection some earlier run left behind: one point, of dimension 1, no payload.
LeftOver ==
    [exists |-> TRUE, size |-> 1, distance |-> "Cosine", field |-> "text",
     points |-> {[id |-> 5, vector |-> [text |-> <<1>>],
                  payload |-> [null |-> TRUE, text |-> "", id |-> NoneId]]}]

\* Nothing is recorded of what COLLECTION_NAME holds: it is absent, or it was not
\* created by this program. Of a collection this program created (fresh), the
\* number of batches upserted since and the points before the last of them.
NoLineage == [fresh |-> FALSE, batches |-> 0, prev |-> {}]

NoHist == [createCalls |-> 0, deleteCalls |-> 0, noops |-> 0, failed |-> 0,
           cause |-> "", lastDelay |-> 0, slept |-> FALSE,
           existed |-> FALSE, hadPoints |-> FALSE, priorSize |-> 0,
           priorFresh |-> FALSE, stepAFailed |-> FALSE]

\* The record of a call that starts now: what COLLECTION_NAME holds at that time.
StartHist ==
    [NoHist EXCEPT !.existed = store[COLLECTION_NAME].exists,
                   !.hadPoints = store[COLLECTION_NAME].points # {},
                   !.priorSize = store[COLLECTION_NAME].size,
                   !.priorFresh = lineage.fresh]

\* ---------------------------------------------------------------- setup_qdrant_collection
\* A caller invokes setup_qdrant_collection(COLLECTION_NAME, size, retries).
CallSetup ==
    /\ mode = "api" /\ pc = "idle" /\ calls < MaxCalls
    /\ \E size \in Dims, retries \in 0..MaxRetries :
          /\ vector_size' = size
          /\ max_retries' = retries
    /\ attempt' = 0
    /\ hist' = StartHist
    /\ calls' = calls + 1
    /\ pc' = "s_loop"
    /\ UNCHANGED <<store, provisioned, lineage, envVars, addVars, searchVars, mainVars>>

\* for attempt in range(max_retries): the next iteration, or the end of the loop,
\* after which the function returns None.
LoopHead ==
    /\ pc = "s_loop"
    /\ pc' = IF attempt < max_retries THEN "s_list" ELSE "s_returned"
    /\ UNCHANGED <<store, calls, provisioned, lineage, envVars, setupVars, addVars,
                   searchVars, mainVars>>

\* ListOk with the lookup of line 81 never finding the name.
ListOkSkipDelete ==
    /\ pc = "s_list"
    /\ pc' = "s_create"
    /\ UNCHANGED <<store, calls, provisioned, lineage, envVars, setupVars, addVars,
                   searchVars, mainVars>>

\* Lines 78-81: the collections are listed; the name is looked up.
ListOk ==
    /\ pc = "s_list"
    /\ pc' = IF COLLECTION_NAME \in collection_names THEN "s_delete" ELSE "s_create"
    /\ UNCHANGED <<store, calls, provisioned, lineage, envVars, setupVars, addVars,
                   searchVars, mainVars>>

\* ListFail without the inner try of lines 77-87: the failure ends the attempt.
ListFailAborts ==
    /\ pc = "s_list" /\ ~reliable
    /\ pc' = "s_except"
    /\ hist' = [hist EXCEPT !.stepAFailed = TRUE, !.cause = "list", !.failed = @ + 1]
    /\ UNCHANGED <<store, calls, provisioned, lineage, envVars, vector_size, max_retries,
                   attempt, addVars, searchVars, mainVars>>

\* Line 78 raises; line 86 catches it and the attempt goes on with line 91.
ListFail ==
    /\ pc = "s_list" /\ ~reliable
    /\ pc' = "s_create"
    /\ hist' = [hist EXCEPT !.stepAFailed = TRUE]
    /\ UNCHANGED <<store, calls, provisioned, lineage, envVars, vector_size, max_retries,
                   attempt, addVars, searchVars, mainVars>>

\* Lines 83-85: delete_collection removes the collection; time.sleep(2).
DeleteOk ==
    /\ pc = "s_delete"
    /\ store' = [store EXCEPT ![COLLECTION_NAME] = Absent]
    /\ lineage' = NoLineage
    /\ hist' = [hist EXCEPT !.deleteCalls = @ + 1]
    /\ pc' = "s_create"
    /\ UNCHANGED <<calls, provisioned, envVars, vector_size, max_retries, attempt,
                   addVars, searchVars, mainVars>>

\* Lines 83-85: delete_collection returns, and the collection is still there.
DeleteNoop ==
    /\ pc = "s_delete" /\ ~reliable
    /\ hist' = [hist EXCEPT !.deleteCalls = @ + 1, !.noops = @ + 1]
    /\ pc' = "s_create"
    /\ UNCHANGED <<store, calls, provisioned, lineage, envVars, vector_size, max_retries,
                   attempt, addVars, searchVars, mainVars>>

\* Line 83 raises; line 86 catches it and the attempt goes on with line 91.
DeleteFail ==
    /\ pc = "s_delete" /\ ~reliable
    /\ hist' = [hist EXCEPT !.deleteCalls = @ + 1, !.stepAFailed = TRUE]
    /\ pc' = "s_create"
    /\ UNCHANGED <<store, calls, provisioned, lineage, envVars, vector_size, max_retries,
                   attempt, addVars, searchVars, mainVars>>

\* Lines 91-97: create_collection succeeds: the collection is new and empty.
CreateOk ==
    /\ pc = "s_create"
    /\ ~store[COLLECTION_NAME].exists
    /\ store' = [store EXCEPT ![COLLECTION_NAME] = NewCollection(vector_size)]
    /\ lineage' = [NoLineage EXCEPT !.fresh = TRUE]
    /\ hist' = [hist EXCEPT !.createCalls = @ + 1]
    /\ pc' = "s_verify"
    /\ UNCHANGED <<calls, provisioned, envVars, vector_size, max_retries, attempt,
                   addVars, searchVars, mainVars>>

\* Lines 91-97: create_collection returns, and nothing was created.
CreateLost ==
    /\ pc = "s_create" /\ ~reliable
    /\ ~store[COLLECTION_NAME].exists
    /\ hist' = [hist EXCEPT !.createCalls = @ + 1]
    /\ pc' = "s_verify"
    /\ UNCHANGED <<store, calls, provisioned, lineage, envVars, vector_size, max_retries,
                   attempt, addVars, searchVars, mainVars>>

\* Lines 91-97: create_collection raises (the name is taken, or the store fails);
\* line 108 catches it: the rest of the attempt is skipped.
CreateFail ==
    /\ pc = "s_create"
    /\ store[COLLECTION_NAME].exists \/ ~reliable
    /\ hist' = [hist EXCEPT !.createCalls = @ + 1, !.cause = "create", !.failed = @ + 1]
    /\ pc' = "s_except"
    /\ UNCHANGED <<store, calls, provisioned, lineage, envVars, vector_size, max_retries,
                   attempt, addVars, searchVars, mainVars>>

\* Lines 100-106: the collections are listed again; the name is there (return) or
\* not (raise Exception, caught at line 108).
VerifyOk ==
    /\ pc = "s_verify"
    /\ IF COLLECTION_NAME \in collection_names
          THEN pc' = "s_returned" /\ hist' = hist
          ELSE pc' = "s_except" /\ hist' = [hist EXCEPT !.cause = "verify", !.failed = @ + 1]
    /\ UNCHANGED <<store, calls, provisioned, lineage, envVars, vector_size, max_retries,
                   attempt, addVars, searchVars, mainVars>>

\* Line 100 raises; line 108 catches it.
VerifyListFail ==
    /\ pc = "s_verify" /\ ~reliable
    /\ hist' = [hist EXCEPT !.cause = "relist", !.failed = @ + 1]
    /\ pc' = "s_except"
    /\ UNCHANGED <<store, calls, provisioned, lineage, envVars, vector_size, max_retries,
                   attempt, addVars, searchVars, mainVars>>

\* IsLastAttempt compared with max_retries itself.
IsLastAttemptOffByOne == attempt = max_retries

\* Line 109: attempt == max_retries - 1
IsLastAttempt == attempt = max_retries - 1

\* BackoffDelay with the exponent one too high.
BackoffDelayNext(k) == 2 ^ (k + 1)

\* Line 136: time.sleep(2 ** attempt)
BackoffDelay(k) == 2 ^ k

\* Lines 109-133: the last attempt failed: the diagnostic listing and the removal
\* of the local data directory (both best effort, neither changes what the call
\* reports), then the exception is raised to the caller.
Raise ==
    /\ pc = "s_except" /\ IsLastAttempt
    /\ pc' = "s_raised"
    /\ UNCHANGED <<store, calls, provisioned, lineage, envVars, setupVars, addVars,
                   searchVars, mainVars>>

\* Backoff in a loop that does not advance attempt.
BackoffNoStep ==
    /\ pc = "s_except" /\ ~IsLastAttempt
    /\ hist' = [hist EXCEPT !.lastDelay = BackoffDelay(attempt), !.slept = TRUE,
                            !.stepAFailed = FALSE, !.cause = ""]
    /\ attempt' = attempt
    /\ pc' = "s_loop"
    /\ UNCHANGED <<store, calls, provisioned, lineage, envVars, vector_size, max_retries,
                   addVars, searchVars, mainVars>>

\* Lines 135-136 and the loop's step: sleep, then the next attempt.
Backoff ==
    /\ pc = "s_except" /\ ~IsLastAttempt
    /\ hist' = [hist EXCEPT !.lastDelay = BackoffDelay(attempt), !.slept = TRUE,
                            !.stepAFailed = FALSE, !.cause = ""]
    /\ attempt' = attempt + 1
    /\ pc' = "s_loop"
    /\ UNCHANGED <<store, calls, provisioned, lineage, envVars, vector_size, max_retries,
                   addVars, searchVars, mainVars>>

\* The call is over; the caller goes on.
SetupDone ==
    /\ mode = "api" /\ pc \in {"s_returned", "s_raised"}
    /\ provisioned' = IF pc = "s_returned" THEN provisioned + 1 ELSE provisioned
    /\ vector_size' = 1 /\ max_retries' = 0 /\ attempt' = 0
    /\ hist' = NoHist
    /\ pc' = "idle"
    /\ UNCHANGED <<store, calls, lineage, envVars, addVars, searchVars, mainVars>>

SetupStep ==
    \/ LoopHead \/ ListOk \/ ListFail \/ DeleteOk \/ DeleteNoop \/ DeleteFail
    \/ CreateOk \/ CreateLost \/ CreateFail \/ VerifyOk \/ VerifyListFail
    \/ Raise \/ Backoff

\* ---------------------------------------------------------------- add_to_qdrant
Min(a, b) == IF a < b THEN a ELSE b

\* The batches of records ({"id": ..., "lyric": ...}) a caller may pass: n records
\* that share the lyric t, with ids counted up from 7 (lyric "X") or from 1 ("Y").
Lyrics == {"X", "Y"}
Batch(t, n) == [i \in 1..n |-> [id |-> (IF t = "X" THEN 7 ELSE 1) + i - 1, lyric |-> t]]

\* The vectors of dimension d the model uses: every component is 1, or the first
\* is -1 and the others 1. All have the same norm.
Vec(d, s) == [i \in 1..d |-> IF i = 1 /\ s = 1 THEN -1 ELSE 1]
VecPool(d) == {Vec(d, 0), Vec(d, 1)}

\* The lists of n embeddings of dimension d a caller may pass: the two vectors of
\* VecPool(d) in turn, starting with the first (f = 0) or the second (f = 1).
Embs(d, n, f) == [i \in 1..n |-> Vec(d, (i + f) % 2)]

\* MakePoint keyed by the record's own id.
MakePointKeyedByRecordId(idx, data_obj, embedding) ==
    [id |-> data_obj.id, vector |-> [text |-> embedding],
     payload |-> [null |-> FALSE, text |-> data_obj.lyric, id |-> data_obj.id]]

\* Lines 152-159: one PointStruct per pair of zip(data_objs, embeddings), its id the
\* pair's position as enumerate counts it (from 0).
MakePoint(idx, data_obj, embedding) ==
    [id |-> idx, vector |-> [text |-> embedding],
     payload |-> [null |-> FALSE, text |-> data_obj.lyric, id |-> data_obj.id]]

\* MakePoints counting the positions from 1.
MakePointsFromOne(objs, embs) ==
    [k \in 1..Min(Len(objs), Len(embs)) |->
        [id |-> k, vector |-> [text |-> embs[k]],
         payload |-> [null |-> FALSE, text |-> objs[k].lyric, id |-> objs[k].id]]]

MakePoints(objs, embs) ==
    [k \in 1..Min(Len(objs), Len(embs)) |-> MakePoint(k - 1, objs[k], embs[k])]

Range(f) == {f[x] : x \in DOMAIN f}

\* The store's upsert: insert, or replace the point of the same id.
Upserted(old, points) ==
    {p \in old : \A q \in Range(points) : q.id # p.id} \cup Range(points)

\* The store takes a point when its vector "text" has the collection's size.
Accepts(coll, points) ==
    /\ coll.exists
    /\ coll.field = "text"
    /\ \A q \in Range(points) : Len(q.vector.text) = coll.size

\* A caller invokes add_to_qdrant(COLLECTION_NAME, objs, embs).
CallAdd ==
    /\ mode = "api" /\ pc = "idle" /\ calls < MaxCalls
    /\ \E t \in Lyrics, n \in 0..MaxBatch : data_objs' = Batch(t, n)
    /\ \E d \in Dims, n \in 0..MaxBatch, f \in {0, 1} : embeddings' = Embs(d, n, f)
    /\ upserts' = <<>>
    /\ calls' = calls + 1
    /\ pc' = "a_upsert"
    /\ UNCHANGED <<store, provisioned, lineage, envVars, setupVars, searchVars, mainVars>>

\* Lines 162-166: qdrant_client.upsert(collection_name, points, wait=True) returns.
UpsertOk ==
    /\ pc = "a_upsert"
    /\ LET points == MakePoints(data_objs, embeddings)
           coll == store[COLLECTION_NAME]
       IN /\ Accepts(coll, points)
          /\ upserts' = Append(upserts, [collection_name |-> COLLECTION_NAME,
                                         points |-> points, wait |-> TRUE])
          /\ store' = [store EXCEPT ![COLLECTION_NAME].points = Upserted(@, points)]
          /\ lineage' = IF lineage.fresh
                            THEN [lineage EXCEPT !.batches = @ + 1, !.prev = coll.points]
                            ELSE lineage
    /\ pc' = "a_returned"
    /\ UNCHANGED <<calls, provisioned, envVars, setupVars, data_objs, embeddings,
                   searchVars, mainVars>>

\* Lines 162-166: qdrant_client.upsert raises; add_to_qdrant does not catch it.
UpsertFail ==
    /\ pc = "a_upsert"
    /\ LET points == MakePoints(data_objs, embeddings)
       IN /\ ~Accepts(store[COLLECTION_NAME], points) \/ points = <<>> \/ ~reliable
          /\ upserts' = Append(upserts, [collection_name |-> COLLECTION_NAME,
                                         points |-> points, wait |-> TRUE])
    /\ pc' = "a_raised"
    /\ UNCHANGED <<store, calls, provisioned, lineage, envVars, setupVars, data_objs,
                   embeddings, searchVars, mainVars>>

\* The call is over; the caller goes on.
AddDone ==
    /\ mode = "api" /\ pc \in {"a_returned", "a_raised"}
    /\ data_objs' = <<>> /\ embeddings' = <<>> /\ upserts' = <<>>
    /\ pc' = "idle"
    /\ UNCHANGED <<store, calls, provisioned, lineage, envVars, setupVars, searchVars,
                   mainVars>>

\* ---------------------------------------------------------------- search_similar
\* The similarity the store reports for a stored vector and the query: the cosine
\* of two vectors of VecPool(d) is their dot product over d; the model keeps the
\* dot product, which orders the points of one collection the same way.
RECURSIVE Dot(_, _)
Dot(v, q) == IF v = <<>> THEN 0 ELSE Head(v) * Head(q) + Dot(Tail(v), Tail(q))

\* A ScoredPoint with with_vectors=False, with_payload=True.
Hit(p, q) == [id |-> p.id, payload |-> p.payload, score |-> Dot(p.vector.text, q)]

\* What qdrant_client.search may return: the lim best points (all of them when
\* there are fewer), best first; points of equal score in any order.
StoreSearch(points, q, lim) ==
    LET n == Min(lim, Cardinality(points))
        all == {Hit(p, q) : p \in points}
    IN {h \in [1..n -> all] :
          /\ \A i, j \in 1..n : i < j => h[i].id # h[j].id /\ h[i].score >= h[j].score
          /\ \A x \in all : (\A i \in 1..n : h[i].id # x.id) => x.score <= h[n].score}

\* Project reporting the point's storage id for the payload's id.
ProjectPointId(hit) ==
    [lyric |-> IF hit.payload.null THEN "" ELSE hit.payload.text,
     id |-> hit.id,
     score |-> hit.score]

\* Lines 198-203: the dictionary built from one hit.
Project(hit) ==
    [lyric |-> IF hit.payload.null THEN "" ELSE hit.payload.text,
     id |-> IF hit.payload.null THEN NoneId ELSE hit.payload.id,
     score |-> hit.score]

\* A caller invokes search_similar(COLLECTION_NAME, q, lim).
CallSearch ==
    /\ mode = "api" /\ pc = "idle" /\ calls < MaxCalls
    /\ \E d \in Dims : \E q \in VecPool(d) : query_embedding' = q
    /\ \E lim \in 1..MaxLimit : limit' = lim
    /\ search_result' = <<>>
    /\ results' = <<>>
    /\ calls' = calls + 1
    /\ pc' = "q_search"
    /\ UNCHANGED <<store, provisioned, lineage, envVars, setupVars, addVars, mainVars>>

\* Lines 188-204: qdrant_client.search returns its hits; each is projected.
SearchOk ==
    /\ pc = "q_search"
    /\ store[COLLECTION_NAME].exists
    /\ store[COLLECTION_NAME].size = Len(query_embedding)
    /\ \E h \in StoreSearch(store[COLLECTION_NAME].points, query_embedding, limit) :
          /\ search_result' = h
          /\ results' = [i \in 1..Len(h) |-> Project(h[i])]
    /\ pc' = "q_returned"
    /\ UNCHANGED <<store, calls, provisioned, lineage, envVars, setupVars, addVars,
                   query_embedding, limit, mainVars>>

\* Lines 188-194: qdrant_client.search raises; search_similar does not catch it.
SearchFail ==
    /\ pc = "q_search"
    /\ \/ ~store[COLLECTION_NAME].exists
       \/ store[COLLECTION_NAME].size # Len(query_embedding)
       \/ ~reliable
    /\ pc' = "q_raised"
    /\ UNCHANGED <<store, calls, provisioned, lineage, envVars, setupVars, addVars,
                   searchVars, mainVars>>

\* The call is over; the caller has its list.
SearchDone ==
    /\ mode = "api" /\ pc \in {"q_returned", "q_raised"}
    /\ query_embedding' = <<>> /\ limit' = 1
    /\ search_result' = <<>> /\ results' = <<>>
    /\ pc' = "idle"
    /\ UNCHANGED <<store, calls, provisioned, lineage, envVars, setupVars, addVars,
                   mainVars>>

\* ---------------------------------------------------------------- get_embedding, main
\* Lines 209-218: the sample records.
SampleData == <<[id |-> 1, lyric |-> "L1"], [id |-> 2, lyric |-> "L2"]>>

\* Line 61: max_retries: int = 3; line 238: limit=2.
DefaultMaxRetries == 3
SearchLimit == 2

\* The vectors get_embedding may return: the provider's vectors all have one
\* dimension, the one of the vectors it returned before.
Embeddable ==
    UNION {VecPool(d) : d \in IF embedding_array = <<>> THEN Dims
                                ELSE {Len(embedding_array[1])}}

\* Line 224: get_embedding(text, MODEL_NAME) for the next sample record returns.
EmbedOk ==
    /\ mode = "main" /\ pc = "m_embed"
    /\ \E v \in Embeddable : embedding_array' = Append(embedding_array, v)
    /\ log' = Append(log, "embed")
    /\ okOps' = okOps + 1
    /\ pc' = IF Len(embedding_array) + 1 < Len(SampleData) THEN "m_embed" ELSE "m_setup"
    /\ UNCHANGED <<store, calls, provisioned, lineage, envVars, setupVars, addVars,
                   searchVars>>

\* Lines 57-59 and 248: get_embedding prints and re-raises; main catches.
EmbedFail ==
    /\ mode = "main" /\ pc = "m_embed"
    /\ log' = Append(log, "embed")
    /\ pc' = "m_caught"
    /\ UNCHANGED <<store, calls, provisioned, lineage, envVars, setupVars, addVars,
                   searchVars, embedding_array, okOps>>

\* Lines 225-229: setup_qdrant_collection(COLLECTION_NAME, embedding_dim).
MainCallSetup ==
    /\ mode = "main" /\ pc = "m_setup"
    /\ vector_size' = IF embedding_array # <<>> THEN Len(embedding_array[1]) ELSE 0
    /\ max_retries' = DefaultMaxRetries
    /\ attempt' = 0
    /\ hist' = StartHist
    /\ log' = Append(log, "provision")
    /\ pc' = "s_loop"
    /\ UNCHANGED <<store, calls, provisioned, lineage, envVars, addVars, searchVars,
                   embedding_array, okOps>>

\* MainAfterSetup going on to line 230 whatever provisioning did.
MainAfterSetupIgnoresFailure ==
    /\ mode = "main" /\ pc \in {"s_returned", "s_raised"}
    /\ okOps' = IF pc = "s_returned" THEN okOps + 1 ELSE okOps
    /\ provisioned' = IF pc = "s_returned" THEN provisioned + 1 ELSE provisioned
    /\ pc' = "m_add"
    /\ UNCHANGED <<store, calls, lineage, envVars, setupVars, addVars, searchVars,
                   embedding_array, log>>

\* Lines 229-230 and 248: provisioning returned (line 230 is next) or raised (caught).
MainAfterSetup ==
    /\ mode = "main" /\ pc \in {"s_returned", "s_raised"}
    /\ IF pc = "s_returned"
          THEN okOps' = okOps + 1 /\ pc' = "m_add" /\ provisioned' = provisioned + 1
          ELSE okOps' = okOps /\ pc' = "m_caught" /\ provisioned' = provisioned
    /\ UNCHANGED <<store, calls, lineage, envVars, setupVars, addVars, searchVars,
                   embedding_array, log>>

\* Line 230: add_to_qdrant(COLLECTION_NAME, data_objs, embedding_array).
MainCallAdd ==
    /\ mode = "main" /\ pc = "m_add"
    /\ data_objs' = SampleData
    /\ embeddings' = embedding_array
    /\ upserts' = <<>>
    /\ log' = Append(log, "upsert")
    /\ pc' = "a_upsert"
    /\ UNCHANGED <<store, calls, provisioned, lineage, envVars, setupVars, searchVars,
                   embedding_array, okOps>>

\* Lines 230-236 and 248: the upsert returned (line 236 is next) or raised (caught).
MainAfterAdd ==
    /\ mode = "main" /\ pc \in {"a_returned", "a_raised"}
    /\ IF pc = "a_returned"
          THEN okOps' = okOps + 1 /\ pc' = "m_embedq"
          ELSE okOps' = okOps /\ pc' = "m_caught"
    /\ UNCHANGED <<store, calls, provisioned, lineage, envVars, setupVars, addVars,
                   searchVars, embedding_array, log>>

\* Line 236: get_embedding(query_text, MODEL_NAME) returns.
EmbedQueryOk ==
    /\ mode = "main" /\ pc = "m_embedq"
    /\ \E v \in Embeddable : query_embedding' = v
    /\ log' = Append(log, "embed")
    /\ okOps' = okOps + 1
    /\ pc' = "m_search"
    /\ UNCHANGED <<store, calls, provisioned, lineage, envVars, setupVars, addVars,
                   limit, search_result, results, embedding_array>>

\* Lines 57-59 and 248: get_embedding prints and re-raises; main catches.
EmbedQueryFail ==
    /\ mode = "main" /\ pc = "m_embedq"
    /\ log' = Append(log, "embed")
    /\ pc' = "m_caught"
    /\ UNCHANGED <<store, calls, provisioned, lineage, envVars, setupVars, addVars,
                   searchVars, embedding_array, okOps>>

\* Line 238: search_similar(COLLECTION_NAME, query_embedding, limit=2).
MainCallSearch ==
    /\ mode = "main" /\ pc = "m_search"
    /\ limit' = SearchLimit
    /\ log' = Append(log, "search")
    /\ pc' = "q_search"
    /\ UNCHANGED <<store, calls, provisioned, lineage, envVars, setupVars, addVars,
                   query_embedding, search_result, results, embedding_array, okOps>>

\* Lines 238-246 and 248: the search returned (its results are printed) or raised
\* (caught). Either way main is over.
MainAfterSearch ==
    /\ mode = "main" /\ pc \in {"q_returned", "q_raised"}
    /\ IF pc = "q_returned"
          THEN okOps' = okOps + 1 /\ pc' = "m_done"
          ELSE okOps' = okOps /\ pc' = "m_caught"
    /\ UNCHANGED <<store, calls, provisioned, lineage, envVars, setupVars, addVars,
                   searchVars, embedding_array, log>>

MainStep ==
    \/ EmbedOk \/ EmbedFail \/ MainCallSetup \/ MainAfterSetup \/ MainCallAdd
    \/ MainAfterAdd \/ EmbedQueryOk \/ EmbedQueryFail \/ MainCallSearch
    \/ MainAfterSearch

\* ---------------------------------------------------------------- specification
Init ==
    /\ store \in {[n \in Names |-> Absent],
                  [n \in Names |-> IF n = COLLECTION_NAME THEN LeftOver ELSE Absent],
                  [n \in Names |-> IF n = COLLECTION_NAME THEN Absent ELSE LeftOver]}
    /\ reliable \in BOOLEAN
    /\ \/ mode = "api" /\ pc = "idle"
       \/ mode = "main" /\ pc = "m_embed"
    /\ calls = 0
    /\ vector_size = 1
    /\ max_retries = 0
    /\ attempt = 0
    /\ hist = NoHist
    /\ provisioned = 0
    /\ lineage = NoLineage
    /\ data_objs = <<>>
    /\ embeddings = <<>>
    /\ upserts = <<>>
    /\ query_embedding = <<>>
    /\ limit = 1
    /\ search_result = <<>>
    /\ results = <<>>
    /\ embedding_array = <<>>
    /\ log = <<>>
    /\ okOps = 0

Next ==
    \/ CallSetup \/ SetupStep \/ SetupDone
    \/ CallAdd \/ UpsertOk \/ UpsertFail \/ AddDone
    \/ CallSearch \/ SearchOk \/ SearchFail \/ SearchDone
    \/ MainStep

Spec == Init /\ [][Next]_vars

\* The provisioner alone, every store call and every sleep of which returns.
NextSetup == CallSetup \/ SetupStep \/ SetupDone

LiveSpec == Init /\ [][NextSetup]_vars /\ WF_vars(SetupStep)

\* ---------------------------------------------------------------- properties
InSetup == pc \in {"s_loop", "s_list", "s_delete", "s_create", "s_verify", "s_except"}
SetupOver == pc \in {"s_returned", "s_raised"}
Target == store[COLLECTION_NAME]

\* C1: whenever setup_qdrant_collection returns normally, for every max_retries
\* (0 included) and every behaviour of the store, the collection exists with the
\* vector field "text" of size vector_size and cosine distance, and holds no points.
C1_ReturnedMeansProvisioned ==
    pc = "s_returned" => Target = NewCollection(vector_size)

\* C1, with at least one attempt allowed (max_retries >= 1).
C1_ReturnedMeansProvisionedWithAttempts ==
    pc = "s_returned" /\ max_retries >= 1 => Target = NewCollection(vector_size)

\* C2: when every attempt fails the call makes exactly max_retries attempts, each
\* with one create_collection call, and raises on the last of them and on no
\* earlier one: a raise comes after exactly max_retries failed attempts, and a call
\* that saw a failed attempt and still returned saw fewer than max_retries of them.
C2_RaisesAfterExactlyMaxRetries ==
    /\ pc = "s_raised" =>
          /\ hist.failed = max_retries
          /\ hist.createCalls = max_retries
          /\ attempt = max_retries - 1
    /\ pc = "s_returned" /\ hist.failed >= 1 => hist.failed < max_retries
    /\ InSetup => hist.failed <= max_retries

C2_Witness ==
    /\ pc = "s_raised" /\ max_retries = MaxRetries
    /\ hist.failed = MaxRetries /\ hist.createCalls = MaxRetries

\* C3 as stated: the backoff delay slept before attempt k (0-indexed) is 2^k.
C3_DelayBeforeAttemptIsTwoToTheK ==
    InSetup /\ hist.slept => hist.lastDelay = 2 ^ attempt

\* C3, amended: nothing is slept before attempt 0, and the backoff delay slept
\* before attempt k >= 1 is 2^(k-1): the delay that follows failed attempt k is 2^k.
C3_DelayBeforeAttemptIsTwoToTheKMinusOne ==
    InSetup =>
       /\ attempt = 0 => ~hist.slept
       /\ attempt >= 1 => hist.slept /\ hist.lastDelay = 2 ^ (attempt - 1)

C3_Witness == pc = "s_list" /\ attempt = 2 /\ hist.lastDelay = 2

\* C4: for records and embeddings of equal length, one add_to_qdrant call issues
\* exactly one upsert (wait=True) of exactly len(records) points; the point at
\* position i has id i, vector embeddings[i] under "text", and the payload
\* {text: records[i].lyric, id: records[i].id}.
C4_OneUpsertOfPositionalPoints ==
    pc \in {"a_returned", "a_raised"} /\ Len(data_objs) = Len(embeddings) =>
       /\ Len(upserts) = 1
       /\ upserts[1].wait = TRUE
       /\ upserts[1].collection_name = COLLECTION_NAME
       /\ Len(upserts[1].points) = Len(data_objs)
       /\ \A i \in 1..Len(data_objs) :
             LET pt == upserts[1].points[i]
             IN /\ pt.id = i - 1
                /\ pt.vector = [text |-> embeddings[i]]
                /\ pt.payload.null = FALSE
                /\ pt.payload.text = data_objs[i].lyric
                /\ pt.payload.id = data_objs[i].id

C4_Witness ==
    /\ pc = "a_returned" /\ Len(data_objs) = MaxBatch /\ Len(embeddings) = MaxBatch
    /\ data_objs[1].id = 7 /\ upserts[1].points[1].id = 0

\* C5: search_similar with limit L on a collection of N points returns N results
\* when N < L (none, and no error, when N = 0), never more than L, in descending
\* score order; result i is {lyric: payload.text, id: payload.id, score} of the
\* store's hit i (lyric "" and id None when the hit has no payload).
C5_SearchProjectsHitsInOrder ==
    pc = "q_returned" =>
       LET N == Cardinality(Target.points)
       IN /\ N < limit => Len(results) = N
          /\ N = 0 => results = <<>>
          /\ Len(results) <= limit
          /\ Len(results) = Len(search_result)
          /\ \A i, j \in 1..Len(results) : i < j => results[i].score >= results[j].score
          /\ \A i \in 1..Len(results) :
                LET hit == search_result[i]
                IN /\ results[i].score = hit.score
                   /\ hit.payload.null => results[i].lyric = "" /\ results[i].id = NoneId
                   /\ ~hit.payload.null =>
                         /\ results[i].lyric = hit.payload.text
                         /\ results[i].id = hit.payload.id

C5_Witness ==
    /\ pc = "q_returned" /\ Cardinality(Target.points) = 2 /\ limit = 3
    /\ Len(results) = 2 /\ results[1].score > results[2].score
    /\ results[1].id = 8

C5_WitnessEmpty ==
    pc = "q_returned" /\ Target.points = {} /\ limit >= 1 /\ results = <<>>

\* C6: with a store whose calls succeed, every setup_qdrant_collection call (the
\* second of two in succession as well as the first, whatever was ingested in
\* between) returns on its first attempt and leaves the collection with the
\* requested size and no points; a collection found at the start is deleted once
\* and created again.
C6_ReprovisionLeavesEmptyCollection ==
    reliable /\ max_retries >= 1 =>
       /\ pc # "s_raised"
       /\ pc = "s_returned" =>
             /\ Target = NewCollection(vector_size)
             /\ attempt = 0
             /\ hist.createCalls = 1
             /\ hist.deleteCalls = IF hist.existed THEN 1 ELSE 0

C6_Witness ==
    /\ reliable /\ pc = "s_returned" /\ max_retries >= 1 /\ provisioned >= 1
    /\ hist.priorFresh /\ hist.hadPoints /\ hist.priorSize = vector_size
    /\ hist.deleteCalls = 1 /\ Target.points = {}

\* C7: a setup_qdrant_collection call in which delete_collection returned without
\* removing the collection ends (returns or raises), and never makes more than
\* max_retries attempts.
C7_NoopDeleteStillTerminates ==
    /\ (InSetup /\ hist.noops >= 1) ~> SetupOver
    /\ [](hist.noops >= 1 => attempt < max_retries /\ hist.failed <= max_retries)

C7_Witness ==
    pc = "s_raised" /\ max_retries = MaxRetries /\ hist.noops = MaxRetries

\* C8 as stated: a failure at list/delete, create or re-list does not end the
\* attempt; only a failed verification makes an attempt fail.
C8_OnlyVerificationFailsAnAttempt ==
    pc = "s_except" => hist.cause = "verify"

\* C8, amended: a failure at list/delete is caught and the attempt goes on to call
\* create_collection; a failure of create_collection or of the re-listing ends the
\* attempt as failed, as a failed verification does.
C8_OnlyListDeleteFailureIsAbsorbed ==
    /\ pc = "s_except" => hist.cause \in {"create", "relist", "verify"}
    /\ pc \in {"s_verify", "s_except", "s_raised"} => hist.createCalls = attempt + 1
    /\ pc = "s_returned" /\ max_retries >= 1 => hist.createCalls = attempt + 1
    /\ pc \in {"s_verify", "s_returned"} => hist.cause = ""

C8_Witness ==
    pc = "s_except" /\ hist.stepAFailed /\ hist.cause = "create" /\ hist.createCalls = 1

\* C9: main issues its operations in the order embed, embed, provision, upsert,
\* embed, search, each only after all the earlier ones succeeded; after the first
\* failure it issues nothing more: the exception is caught and the run is over.
\* The store is only ever called from inside the operation logged last.
Canon == <<"embed", "embed", "provision", "upsert", "embed", "search">>

C9_MainStopsAtFirstFailure ==
    mode = "main" =>
       /\ Len(log) <= Len(Canon)
       /\ \A i \in 1..Len(log) : log[i] = Canon[i]
       /\ okOps <= Len(log) /\ Len(log) <= okOps + 1
       /\ InSetup \/ SetupOver => log[Len(log)] = "provision"
       /\ pc \in {"a_upsert", "a_returned", "a_raised"} => log[Len(log)] = "upsert"
       /\ pc \in {"q_search", "q_returned", "q_raised"} => log[Len(log)] = "search"
       /\ pc = "m_caught" => Len(log) = okOps + 1 /\ ~ENABLED Next
       /\ pc = "m_done" => okOps = Len(Canon) /\ ~ENABLED Next

C9_Witness ==
    /\ mode = "main" /\ pc = "m_caught" /\ hist.failed = DefaultMaxRetries
    /\ log = <<"embed", "embed", "provision">>

C9_WitnessDone == mode = "main" /\ pc = "m_done" /\ Len(results) = SearchLimit

\* C10: after two batches A then B were ingested into a collection created empty,
\* with no provisioning in between, the points are keyed by position: A took the
\* ids 0..len(A)-1, every id i < len(B) now holds B's record i, A's points of id
\* >= len(B) are still there, and the collection holds max(len(A), len(B)) points.
C10_SecondBatchOverwritesByPosition ==
    pc = "a_returned" /\ lineage.fresh /\ lineage.batches = 2 =>
       LET A == lineage.prev
           lenA == Cardinality(A)
           lenB == Min(Len(data_objs), Len(embeddings))
       IN /\ {a.id : a \in A} = 0..(lenA - 1)
          /\ Cardinality(Target.points) = IF lenA < lenB THEN lenB ELSE lenA
          /\ Cardinality({x.id : x \in Target.points}) = Cardinality(Target.points)
          /\ \A i \in 1..lenB :
                \E x \in Target.points :
                   /\ x.id = i - 1
                   /\ x.payload.text = data_objs[i].lyric
                   /\ x.payload.id = data_objs[i].id
                   /\ x.vector.text = embeddings[i]
          /\ \A a \in A : a.id >= lenB => a \in Target.points

C10_Witness ==
    /\ pc = "a_returned" /\ lineage.fresh /\ lineage.batches = 2
    /\ Cardinality(lineage.prev) = 2 /\ Len(data_objs) = 1 /\ Len(embeddings) = 1
    /\ \E a \in lineage.prev : a.id = 0 /\ a.payload.text # data_objs[1].lyric
    /\ Cardinality(Target.points) = 2

====
